---- MODULE Spec2Model ----
(***************************************************************************)
(* Model of timing_attack_demo.py: the two password comparators, the       *)
(* sampler, the attempt generator, the experiment runner and the analyzer. *)
(*                                                                         *)
(* Strings are sequences of character codes (ord values); Python's 0-based *)
(* index i is position i + 1 here.  Averages and squared deviations are    *)
(* exact rationals <<numerator, denominator>>.                             *)
(***************************************************************************)
EXTENDS Integers, Sequences, FiniteSets, TLC

VARIABLES
    pc,               \* position of the program / of the call under study
    correct_password, \* PasswordChecker.correct_password, the secret
    input_password,   \* the candidate handed to a comparator
    ret,              \* the last comparator call: its return value and loop steps
    num_correct,      \* num_correct_chars / the runner's loop variable
    attempt,          \* the runner's local `attempt`, the generator's result
    password_length,  \* argument of timing_attack_simulation
    iterations,       \* argument `iterations` of measure_execution_time
    results,          \* the runner's `results` dictionary
    timed,            \* history: the attempt each (strategy, L) point was timed on
    analysis,         \* what analyze_results printed and returned
    error             \* the exception that ended the run, or "none"

vars == <<pc, correct_password, input_password, ret, num_correct, attempt,
          password_length, iterations, results, timed, analysis, error>>

----------------------------------------------------------------------------
(* Bounds of the model *)

\* longest secret handed to a comparator or to the generator
MaxLen == 2
\* longest password_length the runner is started with
MaxPwdLen == 1
\* most points of a sweep handed to analyze_results on its own
MaxPoints == 4
\* random.choice calls one generate_password_attempts call may make
MaxDraws == 3
\* largest perf_counter_ns difference, in clock ticks
MaxTime == 1
\* stands for the runner's iterations=1000
Iterations == 2

----------------------------------------------------------------------------
(* Characters *)

\* the pad character '\0' of secure_check
NUL == 0
\* string.ascii_letters + string.digits, cut down to '1', 'a', 'b'
Alphabet == {49, 97, 98}
\* characters a secret or a candidate may hold
AnyChar == Alphabet \cup {NUL}

Strings(chars, n) == UNION {[1..k -> chars] : k \in 0..n}

Max(a, b) == IF a >= b THEN a ELSE b

\* Python's a ^ b on non-negative integers
RECURSIVE BitXor(_, _)
BitXor(a, b) ==
    IF a = 0 /\ b = 0 THEN 0
    ELSE (IF (a % 2) = (b % 2) THEN 0 ELSE 1) + 2 * BitXor(a \div 2, b \div 2)

\* Python's a | b on non-negative integers
RECURSIVE BitOr(_, _)
BitOr(a, b) ==
    IF a = 0 /\ b = 0 THEN 0
    ELSE (IF (a % 2) = 1 \/ (b % 2) = 1 THEN 1 ELSE 0) + 2 * BitOr(a \div 2, b \div 2)

\* str.ljust(width, fillchar): never shortens
ljust(s, width, fillchar) ==
    IF Len(s) >= width THEN s
    ELSE s \o [k \in 1..(width - Len(s)) |-> fillchar]

\* number of leading positions at which candidate c equals secret s
RECURSIVE PrefixMatch(_, _)
PrefixMatch(s, c) ==
    IF s = <<>> \/ c = <<>> THEN 0
    ELSE IF Head(s) # Head(c) THEN 0
    ELSE 1 + PrefixMatch(Tail(s), Tail(c))

----------------------------------------------------------------------------
(* PasswordChecker *)

\* vulnerable_check noting a mismatch and comparing on to the end
RECURSIVE vulnerable_loop_noexit(_, _, _, _)
vulnerable_loop_noexit(secret, input, i, cmps) ==
    IF i > Len(secret) THEN [ret |-> TRUE, steps |-> cmps]
    ELSE IF input[i] # secret[i] THEN [ret |-> FALSE, steps |-> Len(secret)]
    ELSE vulnerable_loop_noexit(secret, input, i + 1, cmps + 1)

\* the for loop of vulnerable_check from index i on; cmps counts the
\* character comparisons made so far
RECURSIVE vulnerable_loop(_, _, _, _)
vulnerable_loop(secret, input, i, cmps) ==
    IF i > Len(secret) THEN [ret |-> TRUE, steps |-> cmps]
    ELSE IF input[i] # secret[i] THEN [ret |-> FALSE, steps |-> cmps + 1]
    ELSE vulnerable_loop(secret, input, i + 1, cmps + 1)

vulnerable_run(secret, input) ==
    IF Len(input) # Len(secret) THEN [ret |-> FALSE, steps |-> 0]
    ELSE vulnerable_loop(secret, input, 1, 0)

vulnerable_check(secret, input) == vulnerable_run(secret, input).ret

\* secure_check with `result = ...` in place of `result |= ...`
RECURSIVE secure_loop_assign(_, _, _, _, _)
secure_loop_assign(secret, input, i, result, iters) ==
    IF i > Len(secret) THEN [ret |-> (result = 0), steps |-> iters]
    ELSE secure_loop_assign(secret, input, i + 1,
                            BitXor(input[i], secret[i]), iters + 1)

\* secure_check leaving its loop at the first differing character
RECURSIVE secure_loop_earlyexit(_, _, _, _, _)
secure_loop_earlyexit(secret, input, i, result, iters) ==
    IF i > Len(secret) THEN [ret |-> (result = 0), steps |-> iters]
    ELSE IF BitXor(input[i], secret[i]) # 0 THEN [ret |-> FALSE, steps |-> iters + 1]
    ELSE secure_loop_earlyexit(secret, input, i + 1, result, iters + 1)

\* the for loop of secure_check from index i on; iters counts its iterations
RECURSIVE secure_loop(_, _, _, _, _)
secure_loop(secret, input, i, result, iters) ==
    IF i > Len(secret) THEN [ret |-> (result = 0), steps |-> iters]
    ELSE secure_loop(secret, input, i + 1,
                     BitOr(result, BitXor(input[i], secret[i])), iters + 1)

secure_run(secret, input) ==
    LET padded == IF Len(input) # Len(secret)
                  THEN ljust(input, Len(secret), NUL)
                  ELSE input
    IN  secure_loop(secret, padded, 1, 0, 0)

secure_check(secret, input) == secure_run(secret, input).ret

----------------------------------------------------------------------------
(* generate_password_attempts *)

\* the sequences of characters random.choice may hand to one call
DrawSeqs == Strings(Alphabet, MaxDraws)

\* generate_password_attempts without the `while random_char == ...` redraw
RECURSIVE generate_loop_noredraw(_, _, _, _)
generate_loop_noredraw(secret, i, att, draws) ==
    IF i > Len(secret) THEN [done |-> TRUE, attempt |-> att, rest |-> draws]
    ELSE IF draws = <<>> THEN [done |-> FALSE, attempt |-> att, rest |-> draws]
    ELSE generate_loop_noredraw(secret, i + 1, Append(att, Head(draws)), Tail(draws))

\* the for loop of generate_password_attempts from index i on, reading the
\* results of its random.choice calls from draws; done is FALSE when the
\* loop is still waiting for a draw
RECURSIVE generate_loop(_, _, _, _)
generate_loop(secret, i, att, draws) ==
    IF i > Len(secret) THEN [done |-> TRUE, attempt |-> att, rest |-> draws]
    ELSE IF draws = <<>> THEN [done |-> FALSE, attempt |-> att, rest |-> draws]
    ELSE LET random_char == Head(draws)
         IN  IF random_char = secret[i]
             THEN generate_loop(secret, i, att, Tail(draws))
             ELSE generate_loop(secret, i + 1, Append(att, random_char), Tail(draws))

\* generate_password_attempts keeping one correct character too many
generate_password_attempts_long_prefix(secret, num_correct_chars, draws) ==
    IF num_correct_chars >= Len(secret)
    THEN [done |-> TRUE, attempt |-> secret, rest |-> draws]
    ELSE generate_loop(secret, num_correct_chars + 2,
                       SubSeq(secret, 1, num_correct_chars + 1), draws)

\* num_correct_chars >= 0 (the runner passes 0..password_length)
generate_password_attempts(secret, num_correct_chars, draws) ==
    IF num_correct_chars >= Len(secret)
    THEN [done |-> TRUE, attempt |-> secret, rest |-> draws]
    ELSE generate_loop(secret, num_correct_chars + 1,
                       SubSeq(secret, 1, num_correct_chars), draws)

----------------------------------------------------------------------------
(* Exact arithmetic for the statistics module: a rational is <<p, q>>, q > 0 *)

RatSub(a, b) == <<a[1] * b[2] - b[1] * a[2], a[2] * b[2]>>
RatLess(a, b) == a[1] * b[2] < b[1] * a[2]
\* a / b * 100, for b > 0
RatPercent(a, b) == <<a[1] * b[2] * 100, a[2] * b[1]>>

RECURSIVE SeqSum(_)
SeqSum(s) == IF s = <<>> THEN 0 ELSE Head(s) + SeqSum(Tail(s))

RECURSIVE SeqProd(_)
SeqProd(s) == IF s = <<>> THEN 1 ELSE Head(s) * SeqProd(Tail(s))

\* statistics.mean: StatisticsError on no data
mean(data) ==
    IF Len(data) < 1 THEN [error |-> "StatisticsError", value |-> <<0, 1>>]
    ELSE [error |-> "none", value |-> <<SeqSum(data), Len(data)>>]

\* statistics.stdev: StatisticsError on fewer than two data points; value is
\* the SQUARE of the standard deviation, sum((x - mean)^2) / (n - 1)
stdev(data) ==
    LET n == Len(data)
        squares == [k \in 1..n |-> data[k] * data[k]]
    IN  IF n < 2 THEN [error |-> "StatisticsError", value |-> <<0, 1>>]
        ELSE [error |-> "none",
              value |-> <<n * SeqSum(squares) - SeqSum(data) * SeqSum(data),
                          n * (n - 1)>>]

\* statistics.correlation(x, y) for integers x and rationals y: Pearson's r is
\* num / sqrt(den2); StatisticsError when the lengths differ, when there are
\* fewer than two points, or when an input is constant
correlation(x, y) ==
    LET n == Len(x)
        D == SeqProd([k \in 1..Len(y) |-> y[k][2]])
        Y == [k \in 1..Len(y) |-> y[k][1] * (D \div y[k][2])]
        Sxy == n * SeqSum([k \in 1..n |-> x[k] * Y[k]]) - SeqSum(x) * SeqSum(Y)
        Sxx == n * SeqSum([k \in 1..n |-> x[k] * x[k]]) - SeqSum(x) * SeqSum(x)
        Syy == n * SeqSum([k \in 1..n |-> Y[k] * Y[k]]) - SeqSum(Y) * SeqSum(Y)
    IN  IF Len(y) # n \/ n < 2 THEN [error |-> "StatisticsError", num |-> 0, den2 |-> 1]
        ELSE IF Sxx * Syy = 0 THEN [error |-> "StatisticsError", num |-> 0, den2 |-> 1]
        ELSE [error |-> "none", num |-> Sxy, den2 |-> Sxx * Syy]

\* the literal 0 the analyzer uses for a sweep of fewer than two points
ZeroCorrelation == [error |-> "none", num |-> 0, den2 |-> 1]

\* r > t and abs(r) < t, abs(r) > t for a correlation r and a rational t >= 0
CorrGreater(r, t) == r.num > 0 /\ r.num * r.num * t[2] * t[2] > t[1] * t[1] * r.den2
CorrAbsLess(r, t) == r.num * r.num * t[2] * t[2] < t[1] * t[1] * r.den2
CorrAbsGreater(r, t) == r.num * r.num * t[2] * t[2] > t[1] * t[1] * r.den2

----------------------------------------------------------------------------
(* measure_execution_time *)

\* the differences end - start one call may record
Durations == 0..MaxTime

\* elapsed[k] is end - start of the k-th timed call; there are `iterations`
\* of them
measure_execution_time(elapsed) ==
    LET m == mean(elapsed)
    IN  [error |-> m.error, avg_time |-> m.value, times |-> elapsed]

\* lines 168-179 / 192-203: sample one point and build its results entry
sample_point(elapsed) ==
    LET m == measure_execution_time(elapsed)
        sd == stdev(m.times)
    IN  IF m.error # "none" THEN [error |-> m.error]
        ELSE IF sd.error # "none" THEN [error |-> sd.error]
        ELSE [error |-> "none",
              entry |-> [avg_time |-> m.avg_time,
                         std_dev |-> sd.value,
                         all_times |-> m.times]]

----------------------------------------------------------------------------
(* analyze_results *)

\* the thresholds 0.8 and 0.3 of the two verdict lines
VulnerableThreshold == <<4, 5>>
SecureThreshold == <<3, 10>>

\* sorted(d.keys()) as a sequence
RECURSIVE SortedSeq(_)
SortedSeq(S) ==
    IF S = {} THEN <<>>
    ELSE LET m == CHOOSE x \in S : \A y \in S : x <= y
         IN  <<m>> \o SortedSeq(S \ {m})

\* [d[i]['avg_time'] for i in sorted(d.keys())]
avg_times(d) ==
    LET keys == SortedSeq(DOMAIN d)
    IN  [k \in 1..Len(keys) |-> d[keys[k]].avg_time]

\* min(...) and max(...) of a non-empty list of rationals
RatMin(s) == s[CHOOSE k \in 1..Len(s) : \A j \in 1..Len(s) : ~RatLess(s[j], s[k])]
RatMax(s) == s[CHOOSE k \in 1..Len(s) : \A j \in 1..Len(s) : ~RatLess(s[k], s[j])]

\* list(range(len(times)))
range_list(times) == [k \in 1..Len(times) |-> k - 1]

\* the early-exit verdict taken on the magnitude of r
vulnerable_verdict_abs(r) ==
    IF CorrAbsGreater(r, VulnerableThreshold) THEN "VULNERABLE" ELSE "POSSIBLY VULNERABLE"

\* line 238
vulnerable_verdict(r) ==
    IF CorrGreater(r, VulnerableThreshold) THEN "VULNERABLE" ELSE "POSSIBLY VULNERABLE"

\* line 257
secure_verdict(r) ==
    IF CorrAbsLess(r, SecureThreshold) THEN "SECURE" ELSE "POSSIBLY VULNERABLE"

\* lines 224-238: a record with error # "none" when a statement raises
analyze_vulnerable(res) ==
    LET vuln_times == avg_times(res.vulnerable)
        n == Len(vuln_times)
        time_increase == RatSub(vuln_times[n], vuln_times[1])
        corr == IF n > 1 THEN correlation(range_list(vuln_times), vuln_times)
                ELSE ZeroCorrelation
    IN  IF n = 0 THEN [error |-> "IndexError"]
        ELSE IF corr.error # "none" THEN [error |-> corr.error]
        ELSE IF vuln_times[1][1] = 0 THEN [error |-> "ZeroDivisionError"]
        ELSE [error |-> "none",
              fastest |-> vuln_times[1],
              slowest |-> vuln_times[n],
              time_increase |-> time_increase,
              time_increase_percentage |-> RatPercent(time_increase, vuln_times[1]),
              correlation |-> corr,
              verdict |-> vulnerable_verdict(corr)]

\* lines 243-257
analyze_secure(res) ==
    LET secure_times == avg_times(res.secure)
        n == Len(secure_times)
        time_variance == RatSub(RatMax(secure_times), RatMin(secure_times))
        corr == IF n > 1 THEN correlation(range_list(secure_times), secure_times)
                ELSE ZeroCorrelation
    IN  IF n = 0 THEN [error |-> "ValueError"]
        ELSE IF corr.error # "none" THEN [error |-> corr.error]
        ELSE IF RatMin(secure_times)[1] = 0 THEN [error |-> "ZeroDivisionError"]
        ELSE [error |-> "none",
              min |-> RatMin(secure_times),
              max |-> RatMax(secure_times),
              time_variance |-> time_variance,
              secure_variance_percentage |-> RatPercent(time_variance, RatMin(secure_times)),
              correlation |-> corr,
              verdict |-> secure_verdict(corr)]

\* lines 212-266: the vulnerable block runs first; the secure block runs only
\* when the vulnerable block raised nothing
analyze_results(res) ==
    LET v == analyze_vulnerable(res)
        s == analyze_secure(res)
    IN  IF v.error # "none" THEN [error |-> v.error, failed_in |-> "vulnerable"]
        ELSE IF s.error # "none" THEN [error |-> s.error, failed_in |-> "secure"]
        ELSE [error |-> "none", vulnerable |-> v, secure |-> s]

NotAnalyzed == [error |-> "not run"]

----------------------------------------------------------------------------
(* State shared by the specifications *)

NoError == [kind |-> "none", where |-> "none"]
NoCall == [ret |-> FALSE, steps |-> 0]
NoResults == [vulnerable |-> <<>>, secure |-> <<>>, password_length |-> 0]
NoTimed == [vulnerable |-> <<>>, secure |-> <<>>]

\* d[k] = v on a dictionary d
put(d, k, v) == [x \in (DOMAIN d) \cup {k} |-> IF x = k THEN v ELSE d[x]]

----------------------------------------------------------------------------
(* The program: timing_attack_simulation followed by analyze_results *)

\* lines 142-159: draw the secret, build the checker and the empty results
Start ==
    /\ pc = "start"
    /\ correct_password' \in [1..Max(password_length, 0) -> Alphabet]
    /\ results' = [vulnerable |-> <<>>, secure |-> <<>>,
                   password_length |-> password_length]
    /\ num_correct' = 0
    /\ pc' = "vulnerable"
    /\ UNCHANGED <<input_password, ret, attempt, password_length, iterations,
                   timed, analysis, error>>

\* range(password_length) in place of range(password_length + 1)
sweep_range_short(n) == 0..(n - 1)

\* range(password_length + 1), the values of num_correct in both loops
sweep_range(n) == 0..n

\* one pass of the loop body of lines 166-181 (strategy "vulnerable") or of
\* lines 190-205 (strategy "secure")
SweepPoint(strategy) ==
    /\ pc = strategy
    /\ num_correct \in sweep_range(password_length)
    /\ \E draws \in DrawSeqs, elapsed \in [1..iterations -> Durations] :
          LET g == generate_password_attempts(correct_password, num_correct, draws)
              p == sample_point(elapsed)
          IN  /\ g.done /\ g.rest = <<>>
              /\ attempt' = g.attempt
              /\ timed' = [timed EXCEPT ![strategy] = put(@, num_correct, g.attempt)]
              /\ IF p.error # "none"
                 THEN /\ error' = [kind |-> p.error, where |-> "sweep"]
                      /\ pc' = "failed"
                      /\ UNCHANGED <<results, num_correct>>
                 ELSE /\ results' = [results EXCEPT
                                        ![strategy] = put(@, num_correct, p.entry)]
                      /\ num_correct' = num_correct + 1
                      /\ UNCHANGED <<error, pc>>
    /\ UNCHANGED <<correct_password, input_password, ret, password_length,
                   iterations, analysis>>

VulnerablePoint == SweepPoint("vulnerable")

\* the first loop is exhausted: lines 183-188
VulnerableEnd ==
    /\ pc = "vulnerable"
    /\ num_correct \notin sweep_range(password_length)
    /\ num_correct' = 0
    /\ pc' = "secure"
    /\ UNCHANGED <<correct_password, input_password, ret, attempt, password_length,
                   iterations, results, timed, analysis, error>>

SecurePoint == SweepPoint("secure")

\* the second loop is exhausted: lines 207-209, the function returns
SecureEnd ==
    /\ pc = "secure"
    /\ num_correct \notin sweep_range(password_length)
    /\ pc' = "returned"
    /\ UNCHANGED <<correct_password, input_password, ret, num_correct, attempt,
                   password_length, iterations, results, timed, analysis, error>>

\* line 285: analyze_results(results)
Analyze ==
    /\ pc = "returned"
    /\ analysis' = analyze_results(results)
    /\ IF analysis'.error # "none"
       THEN /\ error' = [kind |-> analysis'.error, where |-> "analyze_results"]
            /\ pc' = "failed"
       ELSE /\ pc' = "done"
            /\ UNCHANGED error
    /\ UNCHANGED <<correct_password, input_password, ret, num_correct, attempt,
                   password_length, iterations, results, timed>>

\* the program as written: every point is sampled with iterations=1000
Init ==
    /\ pc = "start"
    /\ password_length \in -1..MaxPwdLen
    /\ iterations = Iterations
    /\ correct_password = <<>>
    /\ input_password = <<>>
    /\ ret = NoCall
    /\ num_correct = 0
    /\ attempt = <<>>
    /\ results = NoResults
    /\ timed = NoTimed
    /\ analysis = NotAnalyzed
    /\ error = NoError

Next ==
    \/ Start
    \/ VulnerablePoint
    \/ VulnerableEnd
    \/ SecurePoint
    \/ SecureEnd
    \/ Analyze

Spec == Init /\ [][Next]_vars

\* the same program with the iteration count an input, as the parameter
\* `iterations` of measure_execution_time is
InitIter ==
    /\ pc = "start"
    /\ password_length \in -1..MaxPwdLen
    /\ iterations \in 0..Iterations
    /\ correct_password = <<>>
    /\ input_password = <<>>
    /\ ret = NoCall
    /\ num_correct = 0
    /\ attempt = <<>>
    /\ results = NoResults
    /\ timed = NoTimed
    /\ analysis = NotAnalyzed
    /\ error = NoError

SpecIter == InitIter /\ [][Next]_vars

----------------------------------------------------------------------------
(* analyze_results applied to the results of any sweep of 1..MaxPoints points *)

\* the results entries one sampled point can be
Entries == {sample_point(e).entry : e \in [1..Iterations -> Durations]}

InitAnalyze ==
    /\ pc = "returned"
    /\ password_length \in 0..(MaxPoints - 1)
    /\ \E v \in [0..password_length -> Entries], s \in [0..password_length -> Entries] :
          results = [vulnerable |-> v, secure |-> s, password_length |-> password_length]
    /\ iterations = Iterations
    /\ correct_password = <<>>
    /\ input_password = <<>>
    /\ ret = NoCall
    /\ num_correct = 0
    /\ attempt = <<>>
    /\ timed = NoTimed
    /\ analysis = NotAnalyzed
    /\ error = NoError

NextAnalyze == Analyze

SpecAnalyze == InitAnalyze /\ [][NextAnalyze]_vars

----------------------------------------------------------------------------
(* The comparators applied to any secret and any candidate *)

CallVulnerable ==
    /\ pc = "cmp_call"
    /\ ret' = vulnerable_run(correct_password, input_password)
    /\ pc' = "vulnerable_returned"
    /\ UNCHANGED <<correct_password, input_password, num_correct, attempt,
                   password_length, iterations, results, timed, analysis, error>>

CallSecure ==
    /\ pc = "cmp_call"
    /\ ret' = secure_run(correct_password, input_password)
    /\ pc' = "secure_returned"
    /\ UNCHANGED <<correct_password, input_password, num_correct, attempt,
                   password_length, iterations, results, timed, analysis, error>>

InitCmp ==
    /\ pc = "cmp_call"
    /\ correct_password \in Strings(AnyChar, MaxLen)
    /\ input_password \in Strings(AnyChar, MaxLen + 1)
    /\ ret = NoCall
    /\ num_correct = 0
    /\ attempt = <<>>
    /\ password_length = 0
    /\ iterations = 0
    /\ results = NoResults
    /\ timed = NoTimed
    /\ analysis = NotAnalyzed
    /\ error = NoError

NextCmp == CallVulnerable \/ CallSecure

SpecCmp == InitCmp /\ [][NextCmp]_vars

----------------------------------------------------------------------------
(* generate_password_attempts applied to any secret and any 0 <= L *)

Generate ==
    /\ pc = "gen_call"
    /\ \E draws \in DrawSeqs :
          LET g == generate_password_attempts(correct_password, num_correct, draws)
          IN  /\ g.done /\ g.rest = <<>>
              /\ attempt' = g.attempt
    /\ pc' = "gen_returned"
    /\ UNCHANGED <<correct_password, input_password, ret, num_correct,
                   password_length, iterations, results, timed, analysis, error>>

InitGen ==
    /\ pc = "gen_call"
    /\ correct_password \in Strings(AnyChar, MaxLen)
    /\ num_correct \in 0..(MaxLen + 1)
    /\ input_password = <<>>
    /\ ret = NoCall
    /\ attempt = <<>>
    /\ password_length = 0
    /\ iterations = 0
    /\ results = NoResults
    /\ timed = NoTimed
    /\ analysis = NotAnalyzed
    /\ error = NoError

NextGen == Generate

SpecGen == InitGen /\ [][NextGen]_vars

----------------------------------------------------------------------------
(* Claims about the comparators, checked under SpecCmp *)

Returned == pc \in {"vulnerable_returned", "secure_returned"}

\* C1: for every secret and every candidate of a different length, both
\* vulnerable_check and secure_check return false.
C1_DifferentLengthRejected ==
    (Returned /\ Len(input_password) # Len(correct_password)) => ret.ret = FALSE

\* C2: for every secret and every candidate of the secret's length, each
\* comparator returns true exactly when the candidate equals the secret.
C2_SameLengthTrueIffEqual ==
    (Returned /\ Len(input_password) = Len(correct_password))
        => (ret.ret <=> (\A k \in 1..Len(correct_password) :
                             input_password[k] = correct_password[k]))

C2_Witness ==
    /\ pc = "secure_returned"
    /\ Len(correct_password) = 2
    /\ input_password = correct_password
    /\ ret.ret = TRUE

----------------------------------------------------------------------------
(* Claims about the generator, checked under SpecGen *)

\* C3: for 0 <= L <= |S|, whatever the draws, the generated attempt has the
\* secret's length, agrees with the secret on its first L characters, differs
\* from it at position L when L < |S|, and is the secret itself when L = |S|.
C3_ExactPrefixMatch ==
    (pc = "gen_returned" /\ num_correct <= Len(correct_password))
        => /\ Len(attempt) = Len(correct_password)
           /\ \A k \in 1..num_correct : attempt[k] = correct_password[k]
           /\ num_correct < Len(correct_password)
                 => attempt[num_correct + 1] # correct_password[num_correct + 1]
           /\ num_correct = Len(correct_password) => attempt = correct_password

C3_Witness ==
    /\ pc = "gen_returned"
    /\ Len(correct_password) = 2
    /\ num_correct = 1
    /\ attempt[1] = correct_password[1]
    /\ attempt[2] # correct_password[2]

----------------------------------------------------------------------------
(* Claims about the runner, checked under Spec *)

\* C4 as stated: for every L, the attempt timed against the constant-time
\* variant is the attempt that was timed against the early-exit variant.
C4_SameAttemptBothVariants ==
    \A L \in (DOMAIN timed.secure) \cap (DOMAIN timed.vulnerable) :
        timed.secure[L] = timed.vulnerable[L]

\* C4 as amended: each variant is timed on an attempt generated for it alone;
\* for every L both attempts have the secret's length and a prefix-match
\* length of exactly L, and for L = password_length both are the secret.
C4_AttemptsOfEqualMatchLength ==
    \A strategy \in {"vulnerable", "secure"} :
        \A L \in DOMAIN timed[strategy] :
            /\ Len(timed[strategy][L]) = Len(correct_password)
            /\ PrefixMatch(correct_password, timed[strategy][L]) = L
            /\ L = password_length => timed[strategy][L] = correct_password

C4_Witness ==
    /\ pc = "returned"
    /\ password_length = 1
    /\ timed.vulnerable[0] # timed.secure[0]
    /\ timed.vulnerable[1] = timed.secure[1]

Contiguous(keys) == keys = 0..(Cardinality(keys) - 1)

HasReturned ==
    \/ pc \in {"returned", "done"}
    \/ pc = "failed" /\ error.where = "analyze_results"

\* C5: the keys recorded so far for a strategy always form a range starting
\* at 0, and once timing_attack_simulation(n) has returned the keys of each
\* strategy are exactly 0..n.
C5_KeysContiguousAndComplete ==
    /\ Contiguous(DOMAIN results.vulnerable)
    /\ Contiguous(DOMAIN results.secure)
    /\ HasReturned => /\ DOMAIN results.vulnerable = 0..password_length
                      /\ DOMAIN results.secure = 0..password_length

C5_Witness ==
    /\ pc = "returned"
    /\ password_length = 1
    /\ DOMAIN results.vulnerable = {0, 1}
    /\ DOMAIN results.secure = {0, 1}

----------------------------------------------------------------------------
(* Claims about degenerate configurations *)

\* C6 (under SpecIter): with iteration count 1, every point that is timed is
\* recorded with exactly one measurement and a standard deviation of zero,
\* and the sweep raises no error.
C6_SingleIterationSampled ==
    iterations = 1
        => /\ ~(pc = "failed" /\ error.where = "sweep")
           /\ \A strategy \in {"vulnerable", "secure"} :
                 \A L \in DOMAIN timed[strategy] :
                     /\ L \in DOMAIN results[strategy]
                     /\ Len(results[strategy][L].all_times) = 1
                     /\ results[strategy][L].std_dev[1] = 0

\* C7 (under Spec): for a secret of length 1 analyze_results computes both
\* correlations of the two-point sweep without raising, whatever the two
\* averages are.
C7_TwoPointCorrelationComputed ==
    password_length = 1
        => ~(pc = "failed" /\ error.where = "analyze_results"
                           /\ error.kind = "StatisticsError")

\* C8 (under Spec): a zero baseline average never makes analyze_results
\* propagate a division fault.
C8_ZeroBaselineNoDivisionFault ==
    ~(pc = "failed" /\ error.where = "analyze_results"
                    /\ error.kind = "ZeroDivisionError")

\* C9 (under SpecIter): a non-positive secret length or iteration count is
\* rejected before any attempt is generated or timed; the run never reaches
\* the sweep or the analysis.
C9_InvalidConfigurationRejected ==
    (password_length <= 0 \/ iterations <= 0)
        => /\ pc \in {"start", "failed"}
           /\ pc = "failed" => error.where = "configuration"
           /\ timed = NoTimed

----------------------------------------------------------------------------
(* Claims about the verdicts, checked under SpecAnalyze *)

\* the rule of the claim on a correlation r = num / sqrt(den2)
ThreeWayVerdict(r) ==
    IF 25 * r.num * r.num > 16 * r.den2 THEN "VULNERABLE"
    ELSE IF 100 * r.num * r.num < 9 * r.den2 THEN "SECURE"
    ELSE "INCONCLUSIVE"

\* the printed verdict read as one of the claim's three: the program has no
\* "inconclusive", its third wording is "POSSIBLY VULNERABLE"
Reported(verdict) ==
    IF verdict = "POSSIBLY VULNERABLE" THEN "INCONCLUSIVE" ELSE verdict

\* C10 as stated: each strategy's verdict is "vulnerable" when |r| > 0.8,
\* "secure" when |r| < 0.3 and "inconclusive" otherwise.
C10_ThreeWayVerdictBothStrategies ==
    pc = "done"
        => /\ Reported(analysis.vulnerable.verdict)
                = ThreeWayVerdict(analysis.vulnerable.correlation)
           /\ Reported(analysis.secure.verdict)
                = ThreeWayVerdict(analysis.secure.correlation)

\* C10 as amended: the early-exit verdict is "VULNERABLE" exactly when the
\* signed r exceeds 0.8 and "POSSIBLY VULNERABLE" otherwise; the constant-time
\* verdict is "SECURE" exactly when |r| < 0.3 and "POSSIBLY VULNERABLE"
\* otherwise.
C10_TwoWayVerdicts ==
    pc = "done"
        => LET rv == analysis.vulnerable.correlation
               rs == analysis.secure.correlation
           IN  /\ analysis.vulnerable.verdict \in {"VULNERABLE", "POSSIBLY VULNERABLE"}
               /\ analysis.vulnerable.verdict = "VULNERABLE"
                     <=> (rv.num > 0 /\ 25 * rv.num * rv.num > 16 * rv.den2)
               /\ analysis.secure.verdict \in {"SECURE", "POSSIBLY VULNERABLE"}
               /\ analysis.secure.verdict = "SECURE"
                     <=> (100 * rs.num * rs.num < 9 * rs.den2)

\* a strongly negative correlation of the early-exit strategy is not judged
\* "VULNERABLE", and a middling one of the constant-time strategy is judged
\* "POSSIBLY VULNERABLE"
C10_Witness ==
    /\ pc = "done"
    /\ analysis.vulnerable.correlation.num < 0
    /\ CorrAbsGreater(analysis.vulnerable.correlation, VulnerableThreshold)
    /\ analysis.vulnerable.verdict = "POSSIBLY VULNERABLE"
    /\ ~CorrAbsLess(analysis.secure.correlation, SecureThreshold)
    /\ ~CorrAbsGreater(analysis.secure.correlation, VulnerableThreshold)
    /\ analysis.secure.verdict = "POSSIBLY VULNERABLE"

----------------------------------------------------------------------------
(* Claim about the reported extremes, checked under SpecAnalyze *)

SameRat(a, b) == a[1] * b[2] = b[1] * a[2]

\* the strategy's report is made from the least and the greatest average
ReportsExtremes(times, fastest, slowest, difference, percentage) ==
    LET lo == RatMin(times)
        hi == RatMax(times)
    IN  /\ SameRat(fastest, lo)
        /\ SameRat(slowest, hi)
        /\ SameRat(difference, RatSub(hi, lo))
        /\ SameRat(percentage, RatPercent(RatSub(hi, lo), lo))

\* C11: for each strategy the reported fastest and slowest durations are the
\* minimum and the maximum of the averages over all match-lengths, and the
\* absolute and percentage differences are computed from those two.
C11_ExtremesAreMinAndMax ==
    pc = "done"
        => /\ ReportsExtremes(avg_times(results.vulnerable),
                              analysis.vulnerable.fastest,
                              analysis.vulnerable.slowest,
                              analysis.vulnerable.time_increase,
                              analysis.vulnerable.time_increase_percentage)
           /\ ReportsExtremes(avg_times(results.secure),
                              analysis.secure.min,
                              analysis.secure.max,
                              analysis.secure.time_variance,
                              analysis.secure.secure_variance_percentage)

----------------------------------------------------------------------------
(* Claims about the cost of the comparators, checked under SpecCmp *)

Least(a, b) == IF a <= b THEN a ELSE b

\* C12: on a candidate of the secret's length with prefix-match length L,
\* vulnerable_check makes exactly min(L + 1, |S|) character comparisons, so
\* no candidate of that length with a prefix match at least as long makes
\* fewer comparisons.
C12_ComparisonsGrowWithPrefix ==
    (pc = "vulnerable_returned" /\ Len(input_password) = Len(correct_password))
        => LET L == PrefixMatch(correct_password, input_password)
           IN  /\ ret.steps = Least(L + 1, Len(correct_password))
               /\ \A other \in [1..Len(correct_password) -> AnyChar] :
                     PrefixMatch(correct_password, other) >= L
                         => vulnerable_run(correct_password, other).steps >= ret.steps

\* an early exit: a first-character mismatch on a two-character secret
C12_Witness ==
    /\ pc = "vulnerable_returned"
    /\ Len(correct_password) = 2
    /\ Len(input_password) = 2
    /\ input_password[1] # correct_password[1]
    /\ input_password[2] = correct_password[2]
    /\ ret.ret = FALSE
    /\ ret.steps = 1

\* the candidate of length n that agrees with the secret wherever both have
\* a character, except at position p when p > 0; positions past the end of
\* the secret hold NUL
Variant(secret, n, p) ==
    [k \in 1..n |->
        IF k > Len(secret) THEN NUL
        ELSE IF k = p THEN CHOOSE c \in AnyChar : c # secret[k]
        ELSE secret[k]]

\* one second candidate for every length and every place of a mismatch, or none
Variants(secret) ==
    {Variant(secret, n, p) : n \in 0..(MaxLen + 1), p \in 0..(MaxLen + 1)}

\* C13: for a fixed secret, secure_check makes exactly |S| loop iterations on
\* every candidate, whatever its length and wherever (or whether) it differs
\* from the secret; in particular it makes as many on the candidate it was
\* called with as on a second candidate of any length with a mismatch at any
\* position or none.
C13_SecureStepsIndependentOfCandidate ==
    pc = "secure_returned"
        => /\ ret.steps = Len(correct_password)
           /\ \A other \in Variants(correct_password) :
                 secure_run(correct_password, other).steps = ret.steps

\* a shorter candidate that already differs at its first character
C13_Witness ==
    /\ pc = "secure_returned"
    /\ Len(correct_password) = 2
    /\ Len(input_password) = 1
    /\ input_password[1] # correct_password[1]
    /\ ret.ret = FALSE
    /\ ret.steps = 2

====
